---- MODULE Spec2Model ----
(***************************************************************************)
(* Model of the trace validation utilities of pyro/util.py:                *)
(*   check_site_shape, check_traces_match, check_model_guide_match and     *)
(*   check_traceenum_requirements.                                         *)
(* Each function is a small state machine: its arguments are the input     *)
(* variables (fixed by Init), its local variables are the local state, pc  *)
(* is its position, raised is the exception that ended it and warnings is  *)
(* the list of warnings.warn calls it made.  The caller may run the same   *)
(* function a second time on the same arguments (Again).                   *)
(***************************************************************************)
EXTENDS Integers, Sequences, FiniteSets

VARIABLES
    fn,                   \* the function the caller runs
    pc,                   \* position inside the function
    second,               \* TRUE during and after the second call
    prev,                 \* outcome of the first call, once it has ended
    raised,               \* exception that ended the current call
    warnings,             \* warnings emitted by the current call, in order
    site,                 \* argument of check_site_shape
    max_plate_nesting,    \* argument of check_site_shape / check_model_guide_match
    model_trace,          \* trace1 / model_trace: sequence of sites (nodes, in order)
    guide_trace,          \* trace2 / guide_trace
    set_order,            \* the order in which this process iterates a set of names
    actual_shape,         \* local of check_site_shape
    expected_shape,       \* local of check_site_shape
    idx,                  \* loop position (frames of a stack, nodes of a trace)
    pending,              \* names a "for name in <set>" loop has not visited yet
    role,                 \* check_traceenum_requirements: trace being walked
    irange_counters,      \* check_traceenum_requirements: name -> counter snapshot
    enumerated_contexts,  \* check_traceenum_requirements: context -> names
    enumerated_sites      \* check_traceenum_requirements: enumerated guide names

vars == <<fn, pc, second, prev, raised, warnings, site, max_plate_nesting,
          model_trace, guide_trace, set_order, actual_shape, expected_shape, idx, pending,
          role, irange_counters, enumerated_contexts, enumerated_sites>>

(***************************************************************************)
(* Bounds of the model.                                                    *)
(***************************************************************************)
MaxFrames == 2      \* frames on a site's cond_indep_stack; dims are -1..-MaxFrames
MaxRank == 2        \* length of a tensor shape
Sizes == {1, 2}     \* sizes of plates and of tensor dimensions

\* float('inf'), the default of max_plate_nesting: larger than every length here.
Infinity == 1000

(***************************************************************************)
(* Python values.                                                          *)
(***************************************************************************)
\* An optional integer: None, or an int.
None == [is_none |-> TRUE, v |-> 0]
Some(n) == [is_none |-> FALSE, v |-> n]

Max(a, b) == IF a >= b THEN a ELSE b

\* reversed(s)
Reversed(s) == [i \in 1..Len(s) |-> s[Len(s) + 1 - i]]

\* list(zip_longest(s, t, fillvalue=fill)): a sequence of pairs
ZipLongest(s, t, fill) ==
    [i \in 1..Max(Len(s), Len(t)) |->
        << IF i <= Len(s) THEN s[i] ELSE fill,
           IF i <= Len(t) THEN t[i] ELSE fill >>]

\* s[len(s) - n:] for 0 <= n <= len(s)
Rightmost(s, n) == SubSeq(s, Len(s) - n + 1, Len(s))

\* [x] * n
Repeat(x, n) == [i \in 1..n |-> x]

\* all sequences over S of length at most n
SeqUpTo(S, n) == UNION {[1..k -> S] : k \in 0..n}

NoError == [kind |-> "none", site |-> "", value |-> 0]
Error(kind, name, value) == [kind |-> kind, site |-> name, value |-> value]

NoOutcome == [raised |-> NoError, warnings |-> <<>>, ended |-> FALSE]

(***************************************************************************)
(* check_site_shape(site, max_plate_nesting)                               *)
(***************************************************************************)
\* f.dim counts from the right: the list position of expected_shape[f.dim]
DimIndex(shape, dim) == Len(shape) + dim + 1

\* lines 234-235: left-pad expected_shape with None up to length -f.dim
PadExpectedShape(shape, dim) ==
    IF Len(shape) < -dim
    THEN Repeat(None, -dim - Len(shape)) \o shape
    ELSE shape

\* a variant of DimCollision: the test reads the last position, not position f.dim
DimCollisionAtLast(shape, dim) == ~shape[Len(shape)].is_none

\* line 236: expected_shape[f.dim] is not None
DimCollision(shape, dim) == ~shape[DimIndex(shape, dim)].is_none

\* line 240: expected_shape[f.dim] = f.size
AssignDim(shape, dim, size) == [shape EXCEPT ![DimIndex(shape, dim)] = Some(size)]

\* line 241: [-1 if e is None else e for e in expected_shape]
Wildcards(shape) == [i \in 1..Len(shape) |-> IF shape[i].is_none THEN -1 ELSE shape[i].v]

\* a variant of PlateStackOverflow: the test is off by one
PlateStackOverflowOffByOne(shape, nesting) == Len(shape) >= nesting

\* line 244: len(expected_shape) > max_plate_nesting
PlateStackOverflow(shape, nesting) == Len(shape) > nesting

\* a variant of TruncateActual: the truncation is left out
TruncateActualNever(shape, nesting) == shape

\* lines 250-251: ignore dimensions left of max_plate_nesting
TruncateActual(shape, nesting) ==
    IF nesting < Len(shape) THEN Rightmost(shape, nesting) ELSE shape

\* lines 254-255: the loop over zip_longest(reversed(actual), reversed(expected), 1)
\* raises at the first pair whose expected size is neither -1 nor the actual size
RECURSIVE FirstBadPair(_, _)
FirstBadPair(pairs, i) ==
    IF i > Len(pairs) THEN 0
    ELSE IF pairs[i][2] # -1 /\ pairs[i][2] # pairs[i][1] THEN i
    ELSE FirstBadPair(pairs, i + 1)

\* a variant of InvalidLogProbShape: the shapes are aligned from the left
InvalidLogProbShapeLeftAligned(actual, expected) ==
    FirstBadPair(ZipLongest(actual, expected, 1), 1) # 0

InvalidLogProbShape(actual, expected) ==
    FirstBadPair(ZipLongest(Reversed(actual), Reversed(expected), 1), 1) # 0

CurrentFrame == site.cond_indep_stack[idx]

SiteLocals == <<actual_shape, expected_shape, idx>>
Inputs == <<fn, site, max_plate_nesting, model_trace, guide_trace, set_order>>
TraceLocals == <<pending, role, irange_counters, enumerated_contexts, enumerated_sites>>
CallState == <<second, prev>>

\* lines 226-229
SiteEnter ==
    /\ fn = "check_site_shape" /\ pc = "call"
    /\ actual_shape' = site.log_prob_shape
    /\ expected_shape' = <<>>
    /\ idx' = 1
    /\ pc' = "scan"
    /\ UNCHANGED <<Inputs, CallState, TraceLocals, raised, warnings>>

\* lines 230-231: a frame without a dim is skipped
SiteScanSkip ==
    /\ fn = "check_site_shape" /\ pc = "scan"
    /\ idx <= Len(site.cond_indep_stack)
    /\ CurrentFrame.dim.is_none
    /\ idx' = idx + 1
    /\ UNCHANGED <<Inputs, CallState, TraceLocals, raised, warnings, pc,
                   actual_shape, expected_shape>>

\* lines 231-239: the frame's position is taken already
SiteScanCollision ==
    /\ fn = "check_site_shape" /\ pc = "scan"
    /\ idx <= Len(site.cond_indep_stack)
    /\ ~CurrentFrame.dim.is_none
    /\ LET padded == PadExpectedShape(expected_shape, CurrentFrame.dim.v)
       IN /\ DimCollision(padded, CurrentFrame.dim.v)
          /\ expected_shape' = padded
    /\ raised' = Error("dim collision", site.name, CurrentFrame.dim.v)
    /\ pc' = "done"
    /\ UNCHANGED <<Inputs, CallState, TraceLocals, warnings, actual_shape, idx>>

\* lines 231-240: the frame's size is written at its position
SiteScanAssign ==
    /\ fn = "check_site_shape" /\ pc = "scan"
    /\ idx <= Len(site.cond_indep_stack)
    /\ ~CurrentFrame.dim.is_none
    /\ LET padded == PadExpectedShape(expected_shape, CurrentFrame.dim.v)
       IN /\ ~DimCollision(padded, CurrentFrame.dim.v)
          /\ expected_shape' = AssignDim(padded, CurrentFrame.dim.v, CurrentFrame.size)
    /\ idx' = idx + 1
    /\ UNCHANGED <<Inputs, CallState, TraceLocals, raised, warnings, pc, actual_shape>>

\* lines 241-247: plate stack overflow
SiteOverflow ==
    /\ fn = "check_site_shape" /\ pc = "scan"
    /\ idx > Len(site.cond_indep_stack)
    /\ expected_shape' = Wildcards(expected_shape)
    /\ PlateStackOverflow(expected_shape', max_plate_nesting)
    /\ raised' = Error("plate stack overflow", site.name, Len(expected_shape'))
    /\ pc' = "done"
    /\ UNCHANGED <<Inputs, CallState, TraceLocals, warnings, actual_shape, idx>>

\* lines 241-251: no overflow; actual_shape is truncated
SiteTruncate ==
    /\ fn = "check_site_shape" /\ pc = "scan"
    /\ idx > Len(site.cond_indep_stack)
    /\ expected_shape' = Wildcards(expected_shape)
    /\ ~PlateStackOverflow(expected_shape', max_plate_nesting)
    /\ actual_shape' = TruncateActual(actual_shape, max_plate_nesting)
    /\ pc' = "compare"
    /\ UNCHANGED <<Inputs, CallState, TraceLocals, raised, warnings, idx>>

\* lines 254-262: some pair disagrees
SiteInvalidShape ==
    /\ fn = "check_site_shape" /\ pc = "compare"
    /\ InvalidLogProbShape(actual_shape, expected_shape)
    /\ raised' = Error("invalid log_prob shape", site.name, 0)
    /\ pc' = "done"
    /\ UNCHANGED <<Inputs, CallState, TraceLocals, SiteLocals, warnings>>

\* lines 254-264: every pair agrees, the function returns
SiteReturn ==
    /\ fn = "check_site_shape" /\ pc = "compare"
    /\ ~InvalidLogProbShape(actual_shape, expected_shape)
    /\ pc' = "done"
    /\ UNCHANGED <<Inputs, CallState, TraceLocals, SiteLocals, raised, warnings>>

(***************************************************************************)
(* Traces: trace.nodes is an ordered mapping, modelled as the sequence of   *)
(* its sites in recorded order; names are unique within a trace.           *)
(***************************************************************************)
Node(name, type, is_observed, subsample, is_auxiliary, enumerate, enumerate_dim, has_event_dim, event_dim, has_shape, shape, stack) ==
    [name |-> name,
     type |-> type,                       \* site["type"]
     is_observed |-> is_observed,         \* site["is_observed"]
     subsample |-> subsample,             \* type(site["fn"]).__name__ == "_Subsample"
     is_auxiliary |-> is_auxiliary,       \* site["infer"].get("is_auxiliary")
     enumerate |-> enumerate,             \* site["infer"].get("enumerate")
     enumerate_dim |-> enumerate_dim,     \* site["infer"].get("_enumerate_dim")
     has_event_dim |-> has_event_dim,     \* hasattr(site["fn"], "event_dim")
     event_dim |-> event_dim,             \* site["fn"].event_dim
     has_shape |-> has_shape,             \* hasattr(site["fn"], "shape")
     shape |-> shape,                     \* site["fn"].shape(*args, **kwargs)
     cond_indep_stack |-> stack]

\* name in trace.nodes
HasNode(trace, name) == \E i \in 1..Len(trace) : trace[i].name = name

\* trace.nodes[name]
NodeOf(trace, name) == trace[CHOOSE i \in 1..Len(trace) : trace[i].name = name]

Warning(kind, r, name, names, others) ==
    [kind |-> kind, role |-> r, site |-> name, names |-> names, others |-> others]

(***************************************************************************)
(* check_traces_match(trace1, trace2): trace1 is model_trace, trace2 is    *)
(* guide_trace.                                                            *)
(***************************************************************************)
\* lines 130, 131: the names of the trace's sample sites
SampleVars(trace) == {trace[i].name : i \in {j \in 1..Len(trace) : trace[j].type = "sample"}}

\* lines 132-133
VarsChangedWarnings(vars1, vars2) ==
    IF vars1 # vars2
    THEN <<Warning("Model vars changed", "", "", vars1, vars2)>>
    ELSE <<>>

\* lines 139-142: both sites answer shape(), and the answers differ
SiteDimsDisagree(site1, site2) ==
    /\ site1.has_shape /\ site2.has_shape
    /\ site1.shape # site2.shape

\* "for name in <set>": Python iterates a set in an order fixed by the hashes of
\* its elements, arbitrary but the same every time within one process; set_order
\* is that order, and the loop visits the pending name that comes first in it
NextName ==
    set_order[CHOOSE i \in 1..Len(set_order) :
        /\ set_order[i] \in pending
        /\ \A j \in 1..(i - 1) : set_order[j] \notin pending]

\* lines 130-133
MatchEnter ==
    /\ fn = "check_traces_match" /\ pc = "call"
    /\ warnings' = VarsChangedWarnings(SampleVars(model_trace), SampleVars(guide_trace))
    /\ pending' = SampleVars(model_trace)
    /\ pc' = "loop"
    /\ UNCHANGED <<Inputs, CallState, SiteLocals, raised, role, irange_counters,
                   enumerated_contexts, enumerated_sites>>

\* lines 136-138: trace2.nodes[name] for a name trace2 does not hold
MatchKeyError ==
    /\ fn = "check_traces_match" /\ pc = "loop"
    /\ pending # {}
    /\ LET name == NextName IN
        /\ ~HasNode(guide_trace, name)
        /\ raised' = Error("KeyError", name, 0)
    /\ pc' = "done"
    /\ UNCHANGED <<Inputs, CallState, SiteLocals, TraceLocals, warnings>>

\* lines 136-143: the two sites disagree on shape
MatchDimsDisagree ==
    /\ fn = "check_traces_match" /\ pc = "loop"
    /\ pending # {}
    /\ LET name == NextName IN
        /\ HasNode(guide_trace, name)
        /\ SiteDimsDisagree(NodeOf(model_trace, name), NodeOf(guide_trace, name))
        /\ raised' = Error("Site dims disagree", name, 0)
    /\ pc' = "done"
    /\ UNCHANGED <<Inputs, CallState, SiteLocals, TraceLocals, warnings>>

\* lines 136-142: the name passes, the loop goes on
MatchNext ==
    /\ fn = "check_traces_match" /\ pc = "loop"
    /\ pending # {}
    /\ LET name == NextName IN
        /\ HasNode(guide_trace, name)
        /\ ~SiteDimsDisagree(NodeOf(model_trace, name), NodeOf(guide_trace, name))
        /\ pending' = pending \ {name}
    /\ UNCHANGED <<Inputs, CallState, SiteLocals, raised, warnings, pc, role,
                   irange_counters, enumerated_contexts, enumerated_sites>>

\* line 136: the loop is exhausted, the function returns
MatchReturn ==
    /\ fn = "check_traces_match" /\ pc = "loop"
    /\ pending = {}
    /\ pc' = "done"
    /\ UNCHANGED <<Inputs, CallState, SiteLocals, TraceLocals, raised, warnings>>

(***************************************************************************)
(* check_model_guide_match(model_trace, guide_trace, max_plate_nesting)    *)
(***************************************************************************)
\* a variant of GuideVars: the subsample sites are not left out
GuideVarsWithSubsample(guide) ==
    {guide[i].name : i \in {j \in 1..Len(guide) : guide[j].type = "sample"}}

\* lines 163-165
GuideVars(guide) ==
    {guide[i].name : i \in {j \in 1..Len(guide) :
        guide[j].type = "sample" /\ ~guide[j].subsample}}

\* lines 166-168
AuxVars(guide) ==
    {guide[i].name : i \in {j \in 1..Len(guide) :
        guide[j].type = "sample" /\ guide[j].is_auxiliary}}

\* lines 169-171
ModelVars(model) ==
    {model[i].name : i \in {j \in 1..Len(model) :
        model[j].type = "sample" /\ ~model[j].is_observed /\ ~model[j].subsample}}

\* lines 172-176
EnumVars(model, guide) ==
    {model[i].name : i \in {j \in 1..Len(model) :
        /\ model[j].type = "sample" /\ ~model[j].is_observed
        /\ ~model[j].subsample
        /\ ~model[j].enumerate_dim.is_none
        /\ model[j].name \notin GuideVars(guide)}}

\* lines 177-184: the three warnings about the variable sets, in order
VarSetWarnings(model, guide) ==
    LET guide_vars == GuideVars(guide)
        aux_vars == AuxVars(guide)
        model_vars == ModelVars(model)
        enum_vars == EnumVars(model, guide)
    IN (IF aux_vars \cap model_vars # {}
        THEN <<Warning("Found auxiliary vars in the model", "", "",
                       aux_vars \cap model_vars, {})>>
        ELSE <<>>)
       \o
       (IF ~(guide_vars \subseteq (model_vars \cup aux_vars))
        THEN <<Warning("Found non-auxiliary vars in guide but not model", "", "",
                       (guide_vars \ aux_vars) \ model_vars, {})>>
        ELSE <<>>)
       \o
       (IF ~(model_vars \subseteq (guide_vars \cup enum_vars))
        THEN <<Warning("Found vars in model but not guide", "", "",
                       (model_vars \ guide_vars) \ enum_vars, {})>>
        ELSE <<>>)

\* line 187: the names the shape loop visits
SharedVars(model, guide) == ModelVars(model) \cap GuideVars(guide)

\* lines 191-192
EventDimsDisagree(model_site, guide_site) ==
    /\ model_site.has_event_dim /\ guide_site.has_event_dim
    /\ model_site.event_dim # guide_site.event_dim

\* a variant of TruncateShape: the slice keeps the leftmost entries
TruncateShapeLeftmost(shape, nesting) ==
    IF Len(shape) > nesting THEN SubSeq(shape, 1, nesting) ELSE shape

\* lines 203-206: allow broadcasting outside of max_plate_nesting
TruncateShape(shape, nesting) ==
    IF Len(shape) > nesting THEN Rightmost(shape, nesting) ELSE shape

\* lines 209-210: the first pair of zip_longest whose sizes differ
RECURSIVE FirstDifferentPair(_, _)
FirstDifferentPair(pairs, i) ==
    IF i > Len(pairs) THEN 0
    ELSE IF pairs[i][1] # pairs[i][2] THEN i
    ELSE FirstDifferentPair(pairs, i + 1)

\* lines 197-212 on the two shapes: TRUE when the ValueError is raised
ShapesDisagree(model_shape, guide_shape, nesting) ==
    IF model_shape = guide_shape THEN FALSE
    ELSE LET m == TruncateShape(model_shape, nesting)
             g == TruncateShape(guide_shape, nesting)
         IN IF m = g THEN FALSE
            ELSE FirstDifferentPair(ZipLongest(Reversed(m), Reversed(g), 1), 1) # 0

\* lines 196-212
SiteShapesDisagree(model_site, guide_site, nesting) ==
    /\ model_site.has_shape /\ guide_site.has_shape
    /\ ShapesDisagree(model_site.shape, guide_site.shape, nesting)

\* lines 215-222
PlateWarnings(model, guide) ==
    LET model_vars == {model[i].name : i \in {j \in 1..Len(model) :
                          model[j].type = "sample" /\ ~model[j].is_observed
                          /\ model[j].subsample}}
        guide_vars == {guide[i].name : i \in {j \in 1..Len(guide) :
                          guide[j].type = "sample" /\ guide[j].subsample}}
    IN IF ~(guide_vars \subseteq model_vars)
       THEN <<Warning("Found plate statements in guide but not model", "", "",
                      guide_vars \ model_vars, {})>>
       ELSE <<>>

\* lines 163-184
GuideEnter ==
    /\ fn = "check_model_guide_match" /\ pc = "call"
    /\ warnings' = VarSetWarnings(model_trace, guide_trace)
    /\ pending' = SharedVars(model_trace, guide_trace)
    /\ pc' = "loop"
    /\ UNCHANGED <<Inputs, CallState, SiteLocals, raised, role, irange_counters,
                   enumerated_contexts, enumerated_sites>>

\* lines 187-189: the lookups of the loop body; a name missing from a trace is
\* a KeyError
GuideLookupFails(name) == ~HasNode(model_trace, name) \/ ~HasNode(guide_trace, name)

\* lines 187-194: the event_dims disagree (or a lookup fails)
GuideEventDimError ==
    /\ fn = "check_model_guide_match" /\ pc = "loop"
    /\ pending # {}
    /\ LET name == NextName IN
        IF GuideLookupFails(name)
        THEN raised' = Error("KeyError", name, 0)
        ELSE /\ EventDimsDisagree(NodeOf(model_trace, name), NodeOf(guide_trace, name))
             /\ raised' = Error("event_dims disagree", name, 0)
    /\ pc' = "done"
    /\ UNCHANGED <<Inputs, CallState, SiteLocals, TraceLocals, warnings>>

\* lines 187-212: the shapes disagree
GuideShapeError ==
    /\ fn = "check_model_guide_match" /\ pc = "loop"
    /\ pending # {}
    /\ LET name == NextName IN
        /\ ~GuideLookupFails(name)
        /\ ~EventDimsDisagree(NodeOf(model_trace, name), NodeOf(guide_trace, name))
        /\ SiteShapesDisagree(NodeOf(model_trace, name), NodeOf(guide_trace, name),
                              max_plate_nesting)
        /\ raised' = Error("shapes disagree", name, 0)
    /\ pc' = "done"
    /\ UNCHANGED <<Inputs, CallState, SiteLocals, TraceLocals, warnings>>

\* lines 187-212: the name passes, the loop goes on
GuideNext ==
    /\ fn = "check_model_guide_match" /\ pc = "loop"
    /\ pending # {}
    /\ LET name == NextName IN
        /\ ~GuideLookupFails(name)
        /\ ~EventDimsDisagree(NodeOf(model_trace, name), NodeOf(guide_trace, name))
        /\ ~SiteShapesDisagree(NodeOf(model_trace, name), NodeOf(guide_trace, name),
                               max_plate_nesting)
        /\ pending' = pending \ {name}
    /\ UNCHANGED <<Inputs, CallState, SiteLocals, raised, warnings, pc, role,
                   irange_counters, enumerated_contexts, enumerated_sites>>

\* lines 214-222: after the loop, the subsample sites are compared
GuideReturn ==
    /\ fn = "check_model_guide_match" /\ pc = "loop"
    /\ pending = {}
    /\ warnings' = warnings \o PlateWarnings(model_trace, guide_trace)
    /\ pc' = "done"
    /\ UNCHANGED <<Inputs, CallState, SiteLocals, TraceLocals, raised>>

(***************************************************************************)
(* check_traceenum_requirements(model_trace, guide_trace)                  *)
(***************************************************************************)
\* lines 287-288
EnumeratedSites(guide) ==
    {guide[i].name : i \in {j \in 1..Len(guide) :
        guide[j].type = "sample" /\ guide[j].enumerate}}

\* line 295: {f.name: f.counter for f in stack if not f.vectorized}; a later
\* frame of the same name overwrites an earlier one
IrangeCounter(stack) ==
    LET seq == {i \in 1..Len(stack) : ~stack[i].vectorized}
    IN [name \in {stack[i].name : i \in seq} |->
            stack[CHOOSE i \in seq :
                    /\ stack[i].name = name
                    /\ \A j \in seq : stack[j].name = name => j <= i].counter]

\* line 296: frozenset(f for f in stack if f.vectorized)
Context(stack) == {stack[i] : i \in {j \in 1..Len(stack) : stack[j].vectorized}}

\* lines 267-272
AreIndependent(counters1, counters2) ==
    \E name \in DOMAIN counters1 :
        /\ name \in DOMAIN counters2
        /\ counters2[name] # counters1[name]

\* a variant of ProperSubset: the comparison is <= instead of <
SubsetOrEqual(context, enumerated_context) == context \subseteq enumerated_context

\* line 300: context < enumerated_context
ProperSubset(context, enumerated_context) ==
    context \subseteq enumerated_context /\ context # enumerated_context

\* lines 299-310 for one site: enumerated_contexts is visited in insertion order
\* from entry i on; the result is the warnings emitted and whether a lookup
\* irange_counters[n] failed (which ends the loop with a KeyError)
RECURSIVE VisitContexts(_, _, _, _, _, _, _)
VisitContexts(r, name, context, irange_counter, contexts, counters, i) ==
    IF i > Len(contexts) THEN [warnings |-> <<>>, key_error |-> FALSE]
    ELSE IF ~ProperSubset(context, contexts[i].context)
         THEN VisitContexts(r, name, context, irange_counter, contexts, counters, i + 1)
    ELSE IF \E n \in contexts[i].names : n \notin DOMAIN counters
         THEN [warnings |-> <<>>, key_error |-> TRUE]
    ELSE LET names == {n \in contexts[i].names :
                          ~AreIndependent(irange_counter, counters[n])}
             diff == {f.name : f \in contexts[i].context \ context}
             rest == VisitContexts(r, name, context, irange_counter, contexts,
                                   counters, i + 1)
         IN IF names = {} THEN rest
            ELSE [warnings |-> <<Warning("possibly invalid dependency", r, name,
                                         names, diff)>> \o rest.warnings,
                  key_error |-> rest.key_error]

\* a variant of RecordCounters: an empty snapshot is not recorded
RecordCountersUnlessEmpty(counters, name, irange_counter) ==
    IF DOMAIN irange_counter = {} THEN counters
    ELSE [n \in DOMAIN counters \cup {name} |->
            IF n = name THEN irange_counter ELSE counters[n]]

\* line 312: irange_counters[name] = irange_counter
RecordCounters(counters, name, irange_counter) ==
    [n \in DOMAIN counters \cup {name} |->
        IF n = name THEN irange_counter ELSE counters[n]]

\* lines 313-314: enumerated_contexts[context].add(name), for an enumerated name
RecordEnumerated(contexts, context, name, enumerated) ==
    IF name \notin enumerated THEN contexts
    ELSE IF \E i \in 1..Len(contexts) : contexts[i].context = context
         THEN [i \in 1..Len(contexts) |->
                  IF contexts[i].context = context
                  THEN [contexts[i] EXCEPT !.names = @ \cup {name}]
                  ELSE contexts[i]]
         ELSE Append(contexts, [context |-> context, names |-> {name}])

\* line 289: the trace the walk is on
RoleTrace == IF role = "model" THEN model_trace ELSE guide_trace

\* lines 287-288
EnumEnter ==
    /\ fn = "check_traceenum_requirements" /\ pc = "call"
    /\ enumerated_sites' = EnumeratedSites(guide_trace)
    /\ role' = "model"
    /\ pc' = "trace"
    /\ UNCHANGED <<Inputs, CallState, SiteLocals, raised, warnings, pending,
                   irange_counters, enumerated_contexts>>

\* a variant of EnumBeginTrace: the dictionaries are created once and kept
EnumBeginTraceKeepingDictionaries ==
    /\ fn = "check_traceenum_requirements" /\ pc = "trace"
    /\ idx' = 1
    /\ pc' = "walk"
    /\ UNCHANGED <<Inputs, CallState, raised, warnings, pending, role,
                   enumerated_sites, actual_shape, expected_shape,
                   irange_counters, enumerated_contexts>>

\* lines 289-292: a trace's walk starts with empty dictionaries
EnumBeginTrace ==
    /\ fn = "check_traceenum_requirements" /\ pc = "trace"
    /\ irange_counters' = <<>>
    /\ enumerated_contexts' = <<>>
    /\ idx' = 1
    /\ pc' = "walk"
    /\ UNCHANGED <<Inputs, CallState, raised, warnings, pending, role,
                   enumerated_sites, actual_shape, expected_shape>>

\* lines 293-294: a site that is no sample site is passed over
EnumSkip ==
    /\ fn = "check_traceenum_requirements" /\ pc = "walk"
    /\ idx <= Len(RoleTrace)
    /\ RoleTrace[idx].type # "sample"
    /\ idx' = idx + 1
    /\ UNCHANGED <<Inputs, CallState, raised, warnings, pending, role, pc,
                   irange_counters, enumerated_contexts, enumerated_sites,
                   actual_shape, expected_shape>>

\* lines 295-314: a sample site is checked against the enumerated sites seen so
\* far, then recorded
EnumVisit ==
    /\ fn = "check_traceenum_requirements" /\ pc = "walk"
    /\ idx <= Len(RoleTrace)
    /\ RoleTrace[idx].type = "sample"
    /\ LET name == RoleTrace[idx].name
           irange_counter == IrangeCounter(RoleTrace[idx].cond_indep_stack)
           context == Context(RoleTrace[idx].cond_indep_stack)
           visit == VisitContexts(role, name, context, irange_counter,
                                  enumerated_contexts, irange_counters, 1)
       IN /\ warnings' = warnings \o visit.warnings
          /\ IF visit.key_error
             THEN /\ raised' = Error("KeyError", name, 0)
                  /\ pc' = "done"
                  /\ UNCHANGED <<idx, irange_counters, enumerated_contexts>>
             ELSE /\ irange_counters' = RecordCounters(irange_counters, name,
                                                       irange_counter)
                  /\ enumerated_contexts' = RecordEnumerated(enumerated_contexts,
                                                context, name, enumerated_sites)
                  /\ idx' = idx + 1
                  /\ UNCHANGED <<raised, pc>>
    /\ UNCHANGED <<Inputs, CallState, pending, role, enumerated_sites,
                   actual_shape, expected_shape>>

\* line 289: the model trace is done, the guide trace is next
EnumNextTrace ==
    /\ fn = "check_traceenum_requirements" /\ pc = "walk"
    /\ idx > Len(RoleTrace)
    /\ role = "model"
    /\ role' = "guide"
    /\ pc' = "trace"
    /\ UNCHANGED <<Inputs, CallState, SiteLocals, raised, warnings, pending,
                   irange_counters, enumerated_contexts, enumerated_sites>>

\* line 289: the guide trace is done, the function returns
EnumReturn ==
    /\ fn = "check_traceenum_requirements" /\ pc = "walk"
    /\ idx > Len(RoleTrace)
    /\ role = "guide"
    /\ pc' = "done"
    /\ UNCHANGED <<Inputs, CallState, SiteLocals, TraceLocals, raised, warnings>>

(***************************************************************************)
(* The caller runs the same check again on the same arguments.             *)
(***************************************************************************)
Again ==
    /\ pc = "done" /\ ~second
    /\ prev' = [raised |-> raised, warnings |-> warnings, ended |-> TRUE]
    /\ second' = TRUE
    /\ raised' = NoError
    /\ warnings' = <<>>
    /\ pc' = "call"
    /\ UNCHANGED <<Inputs, SiteLocals, TraceLocals>>

(***************************************************************************)
(* Inputs.                                                                 *)
(***************************************************************************)
Shapes == SeqUpTo(Sizes, MaxRank)

\* dims are negative (line 233) or None
Dims == {None} \cup {Some(-d) : d \in 1..MaxFrames}

\* a frame of a cond_indep_stack: the fields the checks read
Frame(name, dim, size, counter, vectorized) ==
    [name |-> name, dim |-> dim, size |-> size, counter |-> counter,
     vectorized |-> vectorized]

PlateNames == <<"p1", "p2", "p3", "p4">>

\* stacks of check_site_shape, which reads dim and size only
SiteStacks ==
    UNION {{[i \in 1..k |-> Frame(PlateNames[i], d[i], s[i], 0, ~d[i].is_none)] :
                d \in [1..k -> Dims], s \in [1..k -> Sizes]} : k \in 0..MaxFrames}

Nestings == (0..MaxRank) \cup {Infinity}

NoSite == [name |-> "", cond_indep_stack |-> <<>>, log_prob_shape |-> <<>>]

Idle ==
    /\ pc = "call" /\ second = FALSE /\ prev = NoOutcome
    /\ raised = NoError /\ warnings = <<>>
    /\ actual_shape = <<>> /\ expected_shape = <<>> /\ idx = 0
    /\ pending = {} /\ role = "" /\ irange_counters = <<>>
    /\ enumerated_contexts = <<>> /\ enumerated_sites = {}

InitSite ==
    /\ fn = "check_site_shape"
    /\ site \in {[name |-> "x", cond_indep_stack |-> st, log_prob_shape |-> sh] :
                    st \in SiteStacks, sh \in Shapes}
    /\ max_plate_nesting \in Nestings
    /\ model_trace = <<>> /\ guide_trace = <<>>
    /\ set_order = <<>>
    /\ Idle

NextSite ==
    \/ SiteEnter
    \/ SiteScanSkip
    \/ SiteScanCollision
    \/ SiteScanAssign
    \/ SiteOverflow
    \/ SiteTruncate
    \/ SiteInvalidShape
    \/ SiteReturn
    \/ Again

SpecSite == InitSite /\ [][NextSite]_vars

(***************************************************************************)
(* Properties of check_site_shape, stated on the arguments alone.          *)
(***************************************************************************)
SiteEnded == fn = "check_site_shape" /\ pc = "done"

Stack == site.cond_indep_stack

\* two frames of the stack carry the same assigned dim
SameDimTwice ==
    \E i, j \in 1..Len(Stack) :
        /\ i < j
        /\ ~Stack[i].dim.is_none /\ ~Stack[j].dim.is_none
        /\ Stack[i].dim.v = Stack[j].dim.v

\* the largest -dim over the frames with an assigned dim (0 without any)
DeepestDim ==
    LET ds == {-Stack[i].dim.v : i \in {j \in 1..Len(Stack) : ~Stack[j].dim.is_none}}
    IN IF ds = {} THEN 0 ELSE CHOOSE d \in ds : \A e \in ds : e <= d

\* number of entries of log_prob's shape that survive the truncation
KeptRank ==
    IF Len(site.log_prob_shape) > max_plate_nesting
    THEN max_plate_nesting
    ELSE Len(site.log_prob_shape)

\* k-th entry from the right of the truncated actual shape, padded with 1
ActualAt(k) ==
    IF k <= KeptRank
    THEN site.log_prob_shape[Len(site.log_prob_shape) + 1 - k]
    ELSE 1

\* k-th entry from the right of the expected shape: the size of the frame whose
\* dim is -k, the wildcard -1 inside the stack's depth, the padding 1 beyond it
ExpectedAt(k) ==
    IF k > DeepestDim THEN 1
    ELSE IF \E i \in 1..Len(Stack) : ~Stack[i].dim.is_none /\ Stack[i].dim.v = -k
         THEN (CHOOSE f \in {Stack[i] : i \in 1..Len(Stack)} :
                    ~f.dim.is_none /\ f.dim.v = -k).size
         ELSE -1

\* some right-aligned position has an expected entry that is no wildcard and
\* differs from the actual entry
PositionMismatch ==
    \E k \in 1..Max(KeptRank, DeepestDim) :
        ExpectedAt(k) # -1 /\ ExpectedAt(k) # ActualAt(k)

\* C2 as stated: a site without frames passes whatever log_prob's shape is.
C2_NoFramesAlwaysPasses ==
    (SiteEnded /\ Stack = <<>>) => raised = NoError

\* C2 (amended): a site without frames passes exactly when every entry of
\* log_prob's shape that survives the truncation to max_plate_nesting is 1;
\* otherwise the invalid-log_prob-shape error is raised.
C2_NoFramesPassIffOnes ==
    (SiteEnded /\ Stack = <<>>) =>
        /\ raised = NoError <=> \A k \in 1..KeptRank : ActualAt(k) = 1
        /\ raised # NoError => raised.kind = "invalid log_prob shape"

\* C2 witness: log_prob shape (2,), no frames, max_plate_nesting = 1 raises.
C2_Witness ==
    /\ SiteEnded /\ Stack = <<>>
    /\ site.log_prob_shape = <<2>> /\ max_plate_nesting = 1
    /\ raised.kind = "invalid log_prob shape"

\* C3: with pairwise distinct dims and no overflow, the invalid-log_prob-shape
\* error is raised iff some right-aligned position mismatches; otherwise the
\* check returns without raising.
C3_InvalidShapeIffMismatch ==
    (SiteEnded /\ ~SameDimTwice /\ DeepestDim <= max_plate_nesting) =>
        /\ raised.kind = "invalid log_prob shape" <=> PositionMismatch
        /\ ~PositionMismatch => raised = NoError

\* C3 witness: frames [dim=-2,size=2],[dim=-1,size=1], max_plate_nesting = 2,
\* log_prob shape (2,2) raises.
C3_Witness ==
    /\ SiteEnded
    /\ Len(Stack) = 2
    /\ Stack[1].dim = Some(-2) /\ Stack[1].size = 2
    /\ Stack[2].dim = Some(-1) /\ Stack[2].size = 1
    /\ max_plate_nesting = 2
    /\ site.log_prob_shape = <<2, 2>>
    /\ raised.kind = "invalid log_prob shape"

\* C4: the dim-collision error is raised iff two frames carry the same assigned
\* dim, whatever the sizes, log_prob's shape and max_plate_nesting are.
C4_CollisionIffSameDim ==
    SiteEnded => (raised.kind = "dim collision" <=> SameDimTwice)

\* C4 witness: two frames with dim -1 and max_plate_nesting = 0 (which would
\* overflow) end in the collision error.
C4_Witness ==
    /\ SiteEnded
    /\ Len(Stack) = 2
    /\ Stack[1].dim = Some(-1) /\ Stack[2].dim = Some(-1)
    /\ Stack[1].size # Stack[2].size
    /\ max_plate_nesting = 0
    /\ raised.kind = "dim collision"

\* C10: without dim collision the overflow error is raised iff the deepest dim
\* exceeds max_plate_nesting, whatever log_prob's shape is and before it is
\* touched; the suggested value is the deepest dim, with which the overflow
\* test passes, while it fails with every smaller value.
C10_OverflowIffDeepestDimExceeds ==
    (SiteEnded /\ ~SameDimTwice) =>
        /\ raised.kind = "plate stack overflow" <=> DeepestDim > max_plate_nesting
        /\ raised.kind = "plate stack overflow" =>
            /\ actual_shape = site.log_prob_shape
            /\ raised.value = DeepestDim
            /\ ~PlateStackOverflow(expected_shape, raised.value)
            /\ \A m \in 0..(raised.value - 1) : PlateStackOverflow(expected_shape, m)

\* C10 witness: a frame at dim -2 with max_plate_nesting = 1 and a log_prob shape
\* that would not match overflows and suggests 2.
C10_Witness ==
    /\ SiteEnded
    /\ Len(Stack) = 1 /\ Stack[1].dim = Some(-2) /\ Stack[1].size = 2
    /\ site.log_prob_shape = <<1, 1>>
    /\ max_plate_nesting = 1
    /\ raised = Error("plate stack overflow", "x", 2)

\* a site with every optional feature switched off
PlainNode(name, type) ==
    Node(name, type, FALSE, FALSE, FALSE, FALSE, None, FALSE, 0, FALSE, <<>>, <<>>)

\* the traces holding, in order, one node of each set of choices (type "absent":
\* the trace has no such node)
RECURSIVE TracesFrom(_)
TracesFrom(choices) ==
    IF choices = <<>> THEN {<<>>}
    ELSE {IF n.type = "absent" THEN t ELSE <<n>> \o t :
            n \in Head(choices), t \in TracesFrom(Tail(choices))}

Range(f) == {f[x] : x \in DOMAIN f}

\* the orderings of the names of a sequence
Permutations(names) ==
    {p \in [1..Len(names) -> Range(names)] : Range(p) = Range(names)}

\* check_traces_match: trace1 holds sites among a, b and trace2 sites among a, b,
\* c; each is absent, a param site, or a sample site whose distribution has no
\* shape() or one of two shapes
MatchNames == <<"a", "b">>

MoreMatchNames == <<"a", "b", "c">>

MatchShapes == {<<>>, <<2>>}

MatchNodes(name) ==
    {PlainNode(name, "absent"), PlainNode(name, "param"), PlainNode(name, "sample")}
    \cup {[PlainNode(name, "sample") EXCEPT !.has_shape = TRUE, !.shape = sh] :
            sh \in MatchShapes}

InitTraces ==
    /\ fn = "check_traces_match"
    /\ site = NoSite
    /\ max_plate_nesting = Infinity
    /\ model_trace \in TracesFrom([i \in 1..Len(MatchNames) |-> MatchNodes(MatchNames[i])])
    /\ guide_trace \in TracesFrom([i \in 1..Len(MoreMatchNames) |->
                                        MatchNodes(MoreMatchNames[i])])
    /\ set_order \in Permutations(MatchNames)
    /\ Idle

NextTraces ==
    \/ MatchEnter
    \/ MatchKeyError
    \/ MatchDimsDisagree
    \/ MatchNext
    \/ MatchReturn
    \/ Again

SpecTraces == InitTraces /\ [][NextTraces]_vars

\* check_model_guide_match: names x, y
GuideNames == <<"x", "y">>

\* a sample site whose distribution answers event_dim and shape()
ShapedNode(name, event_dim, shape) ==
    [PlainNode(name, "sample") EXCEPT !.has_event_dim = TRUE, !.event_dim = event_dim,
                                      !.has_shape = TRUE, !.shape = shape]

\* model sites that differ in what the variable sets read
ModelVarNodes(name) ==
    {PlainNode(name, "absent"), PlainNode(name, "param")}
    \cup {[ShapedNode(name, 0, <<>>) EXCEPT !.is_observed = o, !.subsample = s,
                                            !.enumerate_dim = d] :
            o \in BOOLEAN, s \in BOOLEAN, d \in {None, Some(-1)}}

\* guide sites that differ in what the variable sets read
GuideVarNodes(name) ==
    {PlainNode(name, "absent"), PlainNode(name, "param")}
    \cup {[ShapedNode(name, 0, <<>>) EXCEPT !.subsample = s, !.is_auxiliary = a] :
            s \in BOOLEAN, a \in BOOLEAN}

\* sample sites that differ in what the shape loop reads
ShapeNodes(name) ==
    {[PlainNode(name, "sample") EXCEPT !.has_event_dim = he, !.event_dim = e,
                                       !.has_shape = hs, !.shape = sh] :
        he \in BOOLEAN, e \in {0, 1}, hs \in BOOLEAN, sh \in Shapes}

\* the variable sets: any sites under x and y, the default max_plate_nesting
InitGuideVars ==
    /\ model_trace \in TracesFrom([i \in 1..Len(GuideNames) |-> ModelVarNodes(GuideNames[i])])
    /\ guide_trace \in TracesFrom([i \in 1..Len(GuideNames) |-> GuideVarNodes(GuideNames[i])])
    /\ max_plate_nesting = Infinity
    /\ set_order \in Permutations(GuideNames)

\* the shape comparison: one site y in both traces, any shapes, any nesting
InitGuideShapes ==
    /\ model_trace \in {<<n>> : n \in ShapeNodes("y")}
    /\ guide_trace \in {<<n>> : n \in ShapeNodes("y")}
    /\ max_plate_nesting \in Nestings
    /\ set_order = GuideNames

\* the order of the shape loop: sites x and y in both traces, shapes of rank 1
InitGuidePairs ==
    /\ model_trace \in {<<ShapedNode("x", e[1], <<s[1]>>), ShapedNode("y", e[2], <<s[2]>>)>> :
                            e \in [1..2 -> {0, 1}], s \in [1..2 -> Sizes]}
    /\ guide_trace \in {<<ShapedNode("x", e[1], <<s[1]>>), ShapedNode("y", e[2], <<s[2]>>)>> :
                            e \in [1..2 -> {0, 1}], s \in [1..2 -> Sizes]}
    /\ max_plate_nesting = Infinity
    /\ set_order \in Permutations(GuideNames)

InitGuide ==
    /\ fn = "check_model_guide_match"
    /\ site = NoSite
    /\ Idle
    /\ (InitGuideVars \/ InitGuideShapes \/ InitGuidePairs)

NextGuide ==
    \/ GuideEnter
    \/ GuideEventDimError
    \/ GuideShapeError
    \/ GuideNext
    \/ GuideReturn
    \/ Again

SpecGuide == InitGuide /\ [][NextGuide]_vars

\* check_traceenum_requirements: names e, f, g; vectorized plates A and B, a
\* sequential plate i whose counter tells its iterations apart
EnumNames == <<"e", "f", "g">>

MaxCounter == 1        \* counters of the sequential plate are 0..MaxCounter
MaxTraceFrames == 3    \* frames on all the stacks of one trace together

PlateA == Frame("A", Some(-1), 2, 0, TRUE)
PlateB == Frame("B", Some(-2), 2, 0, TRUE)
Irange(counter) == Frame("i", None, 2, counter, FALSE)

EnumStacks ==
    {vec \o seq : vec \in {<<>>, <<PlateA>>, <<PlateB>>, <<PlateA, PlateB>>},
                  seq \in {<<>>} \cup {<<Irange(c)>> : c \in 0..MaxCounter}}

\* guide sites whose plates matter
StackedNodes(name) ==
    {PlainNode(name, "absent"), PlainNode(name, "param")}
    \cup {[PlainNode(name, "sample") EXCEPT !.enumerate = en, !.cond_indep_stack = st] :
            en \in BOOLEAN, st \in EnumStacks}

\* model sites whose plates matter; the enumerate hints of the model's own sites
\* are not read
StackedModelNodes(name) ==
    {PlainNode(name, "absent"), PlainNode(name, "param")}
    \cup {[PlainNode(name, "sample") EXCEPT !.cond_indep_stack = st] : st \in EnumStacks}

\* guide sites outside every plate: they say which names are enumerated
BareNodes(name) ==
    {[PlainNode(name, "sample") EXCEPT !.enumerate = en] : en \in BOOLEAN}

\* the trace of the nodes that are not absent
Present(nodes) == SelectSeq(nodes, LAMBDA n : n.type # "absent")

\* the guide has the plates, in the order e, f, g; the model trace is empty
InitEnumGuide ==
    /\ model_trace = <<>>
    /\ \E n1 \in StackedNodes(EnumNames[1]) :
       \E n2 \in StackedNodes(EnumNames[2]) :
        /\ Len(n1.cond_indep_stack) + Len(n2.cond_indep_stack) <= MaxTraceFrames
        /\ \E n3 \in StackedNodes(EnumNames[3]) :
            /\ Len(n1.cond_indep_stack) + Len(n2.cond_indep_stack)
                    + Len(n3.cond_indep_stack) <= MaxTraceFrames
            /\ guide_trace = Present(<<n1, n2, n3>>)

\* the model has the plates, its sites in any order; the guide says which names
\* are enumerated
InitEnumModel ==
    /\ guide_trace \in TracesFrom([i \in 1..Len(EnumNames) |-> BareNodes(EnumNames[i])])
    /\ \E o \in Permutations(EnumNames) :
       \E n1 \in StackedModelNodes(o[1]) :
       \E n2 \in StackedModelNodes(o[2]) :
        /\ Len(n1.cond_indep_stack) + Len(n2.cond_indep_stack) <= MaxTraceFrames
        /\ \E n3 \in StackedModelNodes(o[3]) :
            /\ Len(n1.cond_indep_stack) + Len(n2.cond_indep_stack)
                    + Len(n3.cond_indep_stack) <= MaxTraceFrames
            /\ model_trace = Present(<<n1, n2, n3>>)

InitEnum ==
    /\ fn = "check_traceenum_requirements"
    /\ site = NoSite
    /\ max_plate_nesting = Infinity
    /\ set_order = <<>>
    /\ Idle
    /\ (InitEnumGuide \/ InitEnumModel)

NextEnum ==
    \/ EnumEnter
    \/ EnumBeginTrace
    \/ EnumSkip
    \/ EnumVisit
    \/ EnumNextTrace
    \/ EnumReturn
    \/ Again

SpecEnum == InitEnum /\ [][NextEnum]_vars

(***************************************************************************)
(* All four checks.                                                        *)
(***************************************************************************)
InitAll == InitSite \/ InitTraces \/ InitGuide \/ InitEnum

NextAll ==
    \/ SiteEnter
    \/ SiteScanSkip
    \/ SiteScanCollision
    \/ SiteScanAssign
    \/ SiteOverflow
    \/ SiteTruncate
    \/ SiteInvalidShape
    \/ SiteReturn
    \/ MatchEnter
    \/ MatchKeyError
    \/ MatchDimsDisagree
    \/ MatchNext
    \/ MatchReturn
    \/ GuideEnter
    \/ GuideEventDimError
    \/ GuideShapeError
    \/ GuideNext
    \/ GuideReturn
    \/ EnumEnter
    \/ EnumBeginTrace
    \/ EnumSkip
    \/ EnumVisit
    \/ EnumNextTrace
    \/ EnumReturn
    \/ Again

SpecAll == InitAll /\ [][NextAll]_vars

(***************************************************************************)
(* Properties of check_traces_match.                                       *)
(***************************************************************************)
MatchEnded == fn = "check_traces_match" /\ pc = "done"

\* names of the sample sites of a trace
SampleNames(trace) ==
    {trace[i].name : i \in {j \in 1..Len(trace) : trace[j].type = "sample"}}

\* the warnings of one kind, in order
WarningsOf(kind) == SelectSeq(warnings, LAMBDA w : w.kind = kind)

\* C1: when the sample-site name sets differ the check warns once, listing both
\* sets, and raises only the shape error of a name that is a sample site of
\* both traces; a name of trace1 missing from trace2 produces no error.
C1_NameSetDifferenceOnlyWarns ==
    (MatchEnded /\ SampleNames(model_trace) # SampleNames(guide_trace)) =>
        /\ warnings = <<Warning("Model vars changed", "", "",
                                SampleNames(model_trace), SampleNames(guide_trace))>>
        /\ raised # NoError =>
            /\ raised.kind = "Site dims disagree"
            /\ raised.site \in SampleNames(model_trace) \cap SampleNames(guide_trace)

(***************************************************************************)
(* Properties of check_model_guide_match.                                  *)
(***************************************************************************)
GuideEnded == fn = "check_model_guide_match" /\ pc = "done"

\* names of the unobserved, non-subsample sample sites of the model
UnobservedModelNames ==
    {model_trace[i].name : i \in {j \in 1..Len(model_trace) :
        /\ model_trace[j].type = "sample"
        /\ ~model_trace[j].is_observed
        /\ ~model_trace[j].subsample}}

\* names of the non-subsample sample sites of the guide
OrdinaryGuideNames ==
    {guide_trace[i].name : i \in {j \in 1..Len(guide_trace) :
        guide_trace[j].type = "sample" /\ ~guide_trace[j].subsample}}

\* names that are in model_vars and in guide_vars
CommonNames == UnobservedModelNames \cap OrdinaryGuideNames

\* k-th entry from the right of a shape truncated to its rightmost
\* max_plate_nesting entries, padded with 1
RightAt(shape, k) ==
    LET kept == IF Len(shape) > max_plate_nesting THEN max_plate_nesting ELSE Len(shape)
    IN IF k <= kept THEN shape[Len(shape) + 1 - k] ELSE 1

\* some right-aligned position of the truncated shapes differs
RightAlignedDiffer(m, g) ==
    \E k \in 1..Max(Len(m), Len(g)) : RightAt(m, k) # RightAt(g, k)

\* the shapes of the name's two sites are both known and differ at some
\* right-aligned position
ShapeMismatchAt(name) ==
    LET m == NodeOf(model_trace, name)
        g == NodeOf(guide_trace, name)
    IN /\ m.has_shape /\ g.has_shape
       /\ RightAlignedDiffer(m.shape, g.shape)

\* the event_dims of the name's two sites are both known and differ
EventDimMismatchAt(name) ==
    LET m == NodeOf(model_trace, name)
        g == NodeOf(guide_trace, name)
    IN m.has_event_dim /\ g.has_event_dim /\ m.event_dim # g.event_dim

\* C5: the shape-mismatch error names a site of both variable sets whose
\* event_dims agree and whose shapes differ at some right-aligned position of
\* the truncated shapes (so not equal shapes, nor shapes equal after the
\* truncation); when no site has an event_dim mismatch, it is raised exactly
\* when some such site exists.
C5_ShapeErrorIffRightAlignedDiffer ==
    GuideEnded =>
        /\ raised.kind = "shapes disagree" =>
            /\ raised.site \in CommonNames
            /\ ~EventDimMismatchAt(raised.site)
            /\ ShapeMismatchAt(raised.site)
            /\ NodeOf(model_trace, raised.site).shape # NodeOf(guide_trace, raised.site).shape
        /\ (\A n \in CommonNames : ~EventDimMismatchAt(n)) =>
            (raised.kind = "shapes disagree" <=> \E n \in CommonNames : ShapeMismatchAt(n))

\* C5 witness: model shape (2,1), guide shape (1,), max_plate_nesting = 1 passes.
C5_Witness ==
    /\ GuideEnded
    /\ Len(model_trace) = 1 /\ Len(guide_trace) = 1
    /\ model_trace[1].has_shape /\ model_trace[1].shape = <<2, 1>>
    /\ guide_trace[1].has_shape /\ guide_trace[1].shape = <<1>>
    /\ max_plate_nesting = 1
    /\ "y" \in CommonNames
    /\ raised = NoError

\* the 'vars in model but not guide' warning lists exactly the names of S, and
\* is absent when S is empty
WarnsModelNotGuide(S) ==
    WarningsOf("Found vars in model but not guide") =
        IF S = {} THEN <<>>
        ELSE <<Warning("Found vars in model but not guide", "", "", S, {})>>

\* names of the model sites that carry a non-null _enumerate_dim hint
EnumerateDimNames ==
    {model_trace[i].name : i \in {j \in 1..Len(model_trace) :
        ~model_trace[j].enumerate_dim.is_none}}

\* an error of check_model_guide_match is about a site that both traces hold
RaisesOnlyOnCommonSites ==
    raised # NoError =>
        /\ raised.kind \in {"event_dims disagree", "shapes disagree"}
        /\ raised.site \in CommonNames

\* C7 as stated: the warning lists the unobserved, non-subsample model sample
\* sites that are neither a guide sample site nor carry an _enumerate_dim hint.
C7_WarnsIffNoGuideSampleSite ==
    GuideEnded =>
        /\ WarnsModelNotGuide((UnobservedModelNames \ SampleNames(guide_trace))
                                \ EnumerateDimNames)
        /\ RaisesOnlyOnCommonSites

\* C7 (amended): the warning lists the unobserved, non-subsample model sample
\* sites that are neither a non-subsample guide sample site nor carry an
\* _enumerate_dim hint; a model variable absent from the guide raises nothing.
C7_WarnsIffNoOrdinaryGuideSite ==
    GuideEnded =>
        /\ WarnsModelNotGuide((UnobservedModelNames \ OrdinaryGuideNames)
                                \ EnumerateDimNames)
        /\ RaisesOnlyOnCommonSites

\* C7 witness: the model has the unobserved site x, the guide has no x, and
\* the check ends with the warning about x and no error.
C7_Witness ==
    /\ GuideEnded
    /\ "x" \in UnobservedModelNames
    /\ ~HasNode(guide_trace, "x")
    /\ "x" \notin EnumerateDimNames
    /\ WarnsModelNotGuide({"x"})
    /\ raised = NoError

(***************************************************************************)
(* Properties of check_traceenum_requirements.                             *)
(***************************************************************************)
EnumRunning == fn = "check_traceenum_requirements"

EnumEnded == EnumRunning /\ pc = "done"

TraceOfRole(r) == IF r = "model" THEN model_trace ELSE guide_trace

\* the vectorized and the sequential frames of a site
VectorizedFrames(node) ==
    {node.cond_indep_stack[i] : i \in {j \in 1..Len(node.cond_indep_stack) :
        node.cond_indep_stack[j].vectorized}}

SequentialFrames(node) ==
    {node.cond_indep_stack[i] : i \in {j \in 1..Len(node.cond_indep_stack) :
        ~node.cond_indep_stack[j].vectorized}}

\* the counter snapshots are independent: the sites share a sequential frame
\* name with differing counters
DifferentIteration(n1, n2) ==
    \E f1 \in SequentialFrames(n1), f2 \in SequentialFrames(n2) :
        f1.name = f2.name /\ f1.counter # f2.counter

\* names of the guide's enumerated sample sites
GuideEnumerated ==
    {guide_trace[i].name : i \in {j \in 1..Len(guide_trace) :
        guide_trace[j].type = "sample" /\ guide_trace[j].enumerate}}

\* the earlier sample sites of trace T that site T[p] should have preceded
Offenders(T, p) ==
    {q \in 1..(p - 1) :
        /\ T[q].type = "sample"
        /\ T[q].name \in GuideEnumerated
        /\ VectorizedFrames(T[p]) \subseteq VectorizedFrames(T[q])
        /\ VectorizedFrames(T[p]) # VectorizedFrames(T[q])
        /\ ~DifferentIteration(T[p], T[q])}

\* the warnings emitted at a site of the trace of role r
WarningsAt(r, name) ==
    {warnings[i] : i \in {j \in 1..Len(warnings) :
        warnings[j].role = r /\ warnings[j].site = name}}

PlateNamesOf(frames) == {f.name : f \in frames}

\* every warning belongs to a sample site of its role's trace, none is repeated,
\* and they come in the order the sites are processed
WarningsInRecordedOrder ==
    /\ \A i \in 1..Len(warnings) :
        /\ warnings[i].role \in {"model", "guide"}
        /\ warnings[i].site \in SampleNames(TraceOfRole(warnings[i].role))
    /\ \A i, j \in 1..Len(warnings) :
        i < j =>
            /\ warnings[i] # warnings[j]
            /\ warnings[i].role = "guide" => warnings[j].role = "guide"
            /\ warnings[i].role = warnings[j].role =>
                LET T == TraceOfRole(warnings[i].role)
                    pos(name) == CHOOSE k \in 1..Len(T) : T[k].name = name
                IN pos(warnings[i].site) <= pos(warnings[j].site)

\* C6 as stated: at a site s a warning is emitted iff some earlier enumerated
\* site should have followed s, and the warning names s, exactly all those
\* sites, and the plates of a set difference.
C6_OneWarningNamesAllOffenders ==
    EnumEnded =>
        \A r \in {"model", "guide"} :
            LET T == TraceOfRole(r) IN
            \A p \in {k \in 1..Len(T) : T[k].type = "sample"} :
                /\ WarningsAt(r, T[p].name) # {} <=> Offenders(T, p) # {}
                /\ \A w \in WarningsAt(r, T[p].name) :
                    /\ w.names = {T[q].name : q \in Offenders(T, p)}
                    /\ \E q \in Offenders(T, p) :
                        w.others = PlateNamesOf(VectorizedFrames(T[q])
                                                    \ VectorizedFrames(T[p]))

\* the warnings expected at site T[p]: one for each distinct set of vectorized
\* frames among the offenders, naming the offenders with that set and the
\* plates of that set that s is outside of
ExpectedWarnings(r, T, p) ==
    {Warning("possibly invalid dependency", r, T[p].name,
             {T[q].name : q \in {o \in Offenders(T, p) : VectorizedFrames(T[o]) = C}},
             PlateNamesOf(C \ VectorizedFrames(T[p]))) :
        C \in {VectorizedFrames(T[q]) : q \in Offenders(T, p)}}

\* C6 (amended): at a site s a warning is emitted iff some earlier enumerated
\* site should have followed s; there is one warning for each distinct set of
\* vectorized frames among those sites, naming s, exactly the sites with that
\* set, and the plates in that set minus s's set.
C6_OneWarningPerEnumeratedContext ==
    EnumEnded =>
        /\ WarningsInRecordedOrder
        /\ \A r \in {"model", "guide"} :
            LET T == TraceOfRole(r) IN
            \A p \in {k \in 1..Len(T) : T[k].type = "sample"} :
                /\ WarningsAt(r, T[p].name) = ExpectedWarnings(r, T, p)
                /\ WarningsAt(r, T[p].name) # {} <=> Offenders(T, p) # {}

\* C6 witness: the guide's enumerated site e under plate A is followed by f
\* outside every plate, and the check warns that f should have preceded e.
C6_Witness ==
    /\ EnumEnded
    /\ Len(guide_trace) = 2
    /\ guide_trace[1].name = "e" /\ guide_trace[1].enumerate
    /\ guide_trace[1].cond_indep_stack = <<PlateA>>
    /\ guide_trace[2].name = "f" /\ guide_trace[2].cond_indep_stack = <<>>
    /\ warnings = <<Warning("possibly invalid dependency", "guide", "f", {"e"}, {"A"})>>

\* C8: check_traceenum_requirements never raises, and during a walk every name
\* stored in enumerated_contexts has an entry in irange_counters.
C8_NeverRaises ==
    EnumRunning =>
        /\ raised = NoError
        /\ pc = "walk" =>
            \A i \in 1..Len(enumerated_contexts) :
                enumerated_contexts[i].names \subseteq DOMAIN irange_counters

\* C8 witness: the model trace lists the guide's enumerated sites f and e in
\* the opposite order, the counter of an earlier enumerated site was looked
\* up (a warning was emitted), and the check ended without an error.
C8_Witness ==
    /\ EnumEnded
    /\ {"e", "f"} \subseteq GuideEnumerated
    /\ "g" \notin GuideEnumerated
    /\ Len(model_trace) = 2
    /\ model_trace[1].name = "f" /\ model_trace[2].name = "e"
    /\ warnings # <<>>
    /\ raised = NoError

(***************************************************************************)
(* Properties of all four checks.                                          *)
(***************************************************************************)
\* C9: a second run of a check on the same arguments ends with the same error
\* and the same warnings as the first, and each trace walk of
\* check_traceenum_requirements starts from empty dictionaries, so that what
\* the model trace's walk built does not reach the guide trace's walk.
C9_SecondRunSameOutcome ==
    /\ (pc = "done" /\ second) =>
        /\ prev.ended
        /\ raised = prev.raised
        /\ warnings = prev.warnings
    /\ (EnumRunning /\ pc = "walk" /\ idx = 1) =>
        /\ irange_counters = <<>>
        /\ enumerated_contexts = <<>>

\* C9 witness: the second run of check_traceenum_requirements has ended, after
\* a model walk that recorded an enumerated site under a plate, with a warning.
C9_Witness ==
    /\ EnumEnded /\ second
    /\ \E i \in 1..Len(model_trace) :
        /\ model_trace[i].name \in GuideEnumerated
        /\ model_trace[i].cond_indep_stack # <<>>
    /\ warnings # <<>>
    /\ prev.warnings = warnings

====
